---- MODULE Spec2Model ----
(***************************************************************************)
(* ChromaPDF (src/App.tsx, src/utils/pdfHelpers.ts,                        *)
(* src/services/localImageService.ts): the session state of the App        *)
(* component and its handlers, at the granularity of the handlers' await   *)
(* points.  A handler reads the state of the render it was created in, so  *)
(* every asynchronous handler carries the values it closed over; React     *)
(* state setters called in one synchronous stretch take effect together.   *)
(*                                                                         *)
(* Conventions: a nullable value is a sequence of length 0 (null) or 1;    *)
(* file and pdfDoc are document ids, 0 for null; the render scale is kept  *)
(* in tenths (30 is 3.0x); the error slot is a string, NoError for null.   *)
(* The floors the code takes of percentages are computed as its doubles    *)
(* give them; colorizeImage's pixel loop is one step of its onload handler.*)
(***************************************************************************)
EXTENDS Integers, Sequences, FiniteSets, TLC

\* ---------------------------------------------------------------- bounds
MaxPages == 2
MaxUploads == 1
MaxRenders == 1
MaxGestures == 3
MaxKeys == 3
MaxPixels == 1
CurveLevels == 4

\* ------------------------------------------------------ program constants
DefaultScale == 30
DefaultBoldness == 60
DefaultMargin == 0

\* ----------------------------------------------------------------- inputs
Docs == {1, 2}
LongDoc == [id |-> 3]
NumPagesOf(d) == IF d = 1 THEN MaxPages ELSE IF d = LongDoc.id THEN MaxKeys ELSE 1
PageSize == [w |-> 100, h |-> 200]
LongPageSize == [w |-> 50, h |-> 100]
PageSizeOf(d) == IF d = LongDoc.id THEN LongPageSize ELSE PageSize
ThemeChoices == {"green"}
PickerChoices == {"#ff0000"}
ScaleChoices == {15}
BoldnessChoices == {100}
MarginChoices == {10}
MarginRange == 0..50
AssembleScales == {20, 30}
SliderBoldness == {5 * k : k \in 0..20}
BoldnessRange == 0..100
TargetChoices == {"#000000", "#10B981"}
PixelChoices ==
  {[r |-> 0, g |-> 0, b |-> 0, a |-> 255], [r |-> 255, g |-> 255, b |-> 255, a |-> 255],
   [r |-> 10, g |-> 20, b |-> 30, a |-> 0], [r |-> 128, g |-> 128, b |-> 128, a |-> 128]}

None == <<>>
Some(x) == <<x>>
Min(a, b) == IF a < b THEN a ELSE b
Max(a, b) == IF a > b THEN a ELSE b
RemoveAt(s, j) == [k \in 1..(Len(s) - 1) |-> IF k < j THEN s[k] ELSE s[k + 1]]

NoError == "null"
ErrLoad == "Failed to load PDF. Please ensure it is a valid PDF file."
ErrRender == "Failed to render page."
ErrUnexpected == "An unexpected error occurred during colorization."
ErrBatch == "Batch processing stopped due to an error."
ErrDownload == "Failed to generate PDF download. Try again."
ErrCanvas == "Browser Canvas context not available"
ErrProcess == "Failed to process image locally."
ErrImage == "Failed to load image data."
TransformErrors == {ErrCanvas, ErrProcess, ErrImage}

\* ------------------------------------------------------------------ state
VARIABLES
  file, pdfDoc, currentPage, numPages, originalPageImage, colorizedPages,
  selectedTheme, customColorHex, resolutionScale, boldness, marginPercent,
  isProcessing, batchProgress, isRenderingPdf, error,
  timer,      \* the pending debounce timer of the render effect, with its closure
  uploads,    \* handleFileUpload calls in flight
  renders,    \* renderCurrentPage calls started by the timer, in flight
  single,     \* the handleColorizeCurrent call in flight
  batch,      \* the handleColorizeAll call in flight: its closure and locals
  run,        \* history of the latest batch run: the calls it made, the pages it
              \* wrote and logged, the settings its calls carried
  saved,      \* the document handed to doc.save by the step just taken
  canvas,     \* a colorizeImage call looked at pixel by pixel: its arguments,
              \* its parameters and the ImageData it leaves
  budget      \* the number of user gestures (clicks, inputs) the session may still take

vars == <<file, pdfDoc, currentPage, numPages, originalPageImage, colorizedPages,
          selectedTheme, customColorHex, resolutionScale, boldness, marginPercent,
          isProcessing, batchProgress, isRenderingPdf, error,
          timer, uploads, renders, single, batch, run, saved, canvas, budget>>

settings == <<selectedTheme, customColorHex, resolutionScale, boldness, marginPercent>>
docState == <<file, pdfDoc, currentPage, numPages>>
flags == <<isProcessing, batchProgress, isRenderingPdf, error>>
procs == <<uploads, renders, single, batch, run>>

\* ------------------------------------------------------------ pure helpers
ThemeHex(t) ==
  CASE t = "black" -> "#000000"
    [] t = "green" -> "#10B981"
    [] t = "blue" -> "#3B82F6"
    [] t = "red" -> "#EF4444"
    [] t = "purple" -> "#8B5CF6"
    [] t = "orange" -> "#F97316"
    [] OTHER -> "#000000"

getActiveHexColor == IF selectedTheme = "custom" THEN customColorHex ELSE ThemeHex(selectedTheme)

\* ----------------------------------------------- number arithmetic (doubles)
\* The code scales a whole number k by a percentage n as k * (n / 100) and
\* takes Math.floor.  Both operations round to the nearest double (53-bit
\* significand), so the result is computed here as the doubles give it:
\*   n / 100 rounds to (n * 2^e - s) / (100 * 2^e), with 2^52 <= the
\*   significand < 2^53 and s the remainder of n * 2^e by 100 nearest zero;
\*   k times that is k*n/100 - k*s/(100 * 2^e); when k*n/100 is a whole
\*   number K and the product falls below K by more than half the spacing of
\*   the doubles under K, the product rounds below K and the floor is K - 1.
RECURSIVE Pow2(_)
Pow2(n) == IF n = 0 THEN 1 ELSE 2 * Pow2(n - 1)

RECURSIVE Pow2Mod100(_)
Pow2Mod100(n) == IF n = 0 THEN 1 ELSE (2 * Pow2Mod100(n - 1)) % 100

\* d with 2^-d <= n/100 < 2^(1-d), for n in 1..100.
QuotientShift(n) == CHOOSE d \in 0..7 : n * Pow2(d) >= 100 /\ (d = 0 \/ n * Pow2(d - 1) < 100)

\* s: 100 * (the significand of the double n/100) = n * 2^(52+d) - s.
QuotientResidue(n) ==
  LET rho == (n * Pow2Mod100(52 + QuotientShift(n))) % 100
  IN IF rho > 50 THEN rho - 100 ELSE rho

\* p with 2^p < K <= 2^(p+1), for K >= 1.
BinadeBelow(K) == CHOOSE p \in -1..29 : Pow2(p + 1) >= K /\ (p = -1 \/ Pow2(p) < K)

\* Math.floor(k * (n / 100)), equally Math.floor((n / 100) * k).
FloorOfPercent(k, n) ==
  LET K == (k * n) \div 100
  IN IF (k * n) % 100 # 0 \/ K = 0 THEN K
     ELSE IF /\ QuotientResidue(n) > 0
             /\ 4 * k * QuotientResidue(n) > 100 * Pow2(BinadeBelow(K) + QuotientShift(n) + 1)
          THEN K - 1
          ELSE K

\* renderPageToImage's result: the page's raster at the scale, with its size.
RenderedPage(doc, pageNumber, scale) ==
  [pageNumber |-> pageNumber,
   dataUrl |-> [doc |-> doc, page |-> pageNumber, scale |-> scale],
   width |-> (PageSizeOf(doc).w * scale) \div 10,
   height |-> (PageSizeOf(doc).h * scale) \div 10]

\* colorizeImage's successful result: the source raster mapped to the colour.
Colorized(dataUrl, targetHex, bold) == [src |-> dataUrl, hex |-> targetHex, bold |-> bold]

ColorizedPageData(imageUrl, width, height) ==
  [imageUrl |-> imageUrl, width |-> width, height |-> height]

\* A Map<number, ColorizedPageData> keeps its entries in insertion order.
Keys(m) == {m[j].page : j \in 1..Len(m)}
MapSet(m, k, v) ==
  IF k \in Keys(m)
  THEN [j \in 1..Len(m) |-> IF m[j].page = k THEN [page |-> k, data |-> v] ELSE m[j]]
  ELSE Append(m, [page |-> k, data |-> v])

\* ------------------------------------------------------------------- Init
NoCall == [doc |-> 0, page |-> 0, scale |-> 0]
NoTransform == [dataUrl |-> NoCall, hex |-> "", bold |-> 0, width |-> 0, height |-> 0]

IdleBatch ==
  [pc |-> "idle", doc |-> 0, n |-> 0, scale |-> 0, hex |-> "", bold |-> 0,
   map |-> <<>>, i |-> 0, call |-> NoCall, tcall |-> NoTransform]

NoRun ==
  [active |-> FALSE, n |-> 0, atStart |-> None,
   published |-> {}, rendered |-> {}, transformed |-> {}, written |-> {},
   logged |-> {}, renderFailed |-> {}, transformFailed |-> {}, transformThrew |-> {},
   usedScales |-> {}, usedColors |-> {},
   errors |-> 0]

NoCanvas ==
  [pc |-> "none", img |-> <<>>, hex |-> "", boldness |-> 0, data |-> <<>>,
   blackPoint |-> 0, whitePoint |-> 0, gamma |-> 0, error |-> NoError]

Fresh ==
  /\ canvas = NoCanvas
  /\ file = 0 /\ pdfDoc = 0 /\ currentPage = 1 /\ numPages = 0
  /\ originalPageImage = None /\ colorizedPages = <<>>
  /\ selectedTheme = "black" /\ customColorHex = "#6366f1"
  /\ resolutionScale = DefaultScale /\ boldness = DefaultBoldness
  /\ marginPercent = DefaultMargin
  /\ isProcessing = FALSE /\ batchProgress = None /\ isRenderingPdf = FALSE
  /\ error = NoError
  /\ timer = None /\ uploads = <<>> /\ renders = <<>> /\ single = None
  /\ batch = IdleBatch /\ run = NoRun /\ saved = None

Init == Fresh /\ budget = MaxGestures

\* A session that may take one more gesture.
InitLong == Fresh /\ budget = MaxGestures + 1

\* A user gesture is taken from the session's budget; a step that is no
\* download saves nothing.
Gesture == budget > 0 /\ budget' = budget - 1 /\ canvas' = canvas
Quiet == saved' = None /\ budget' = budget /\ canvas' = canvas

\* The render effect (deps currentPage, pdfDoc, resolutionScale): when a
\* dependency changed, the cleanup clears the pending timer and, with a
\* document loaded, a new 300 ms timer is set with the new values.
RenderEffect ==
  timer' = IF <<currentPage', pdfDoc', resolutionScale'>> # <<currentPage, pdfDoc, resolutionScale>>
           THEN IF pdfDoc' # 0
                THEN Some([doc |-> pdfDoc', page |-> currentPage', scale |-> resolutionScale'])
                ELSE None
           ELSE timer

\* ------------------------------------------------- upload (handleFileUpload)
Upload(f) ==
  /\ Gesture /\ saved' = None
  /\ file = 0
  /\ Len(uploads) < MaxUploads
  /\ file' = f
  /\ isRenderingPdf' = TRUE
  /\ error' = NoError
  /\ uploads' = Append(uploads, [file |-> f, scale |-> resolutionScale, pc |-> "load"])
  /\ UNCHANGED <<pdfDoc, currentPage, numPages, originalPageImage, colorizedPages,
                 settings, isProcessing, batchProgress, timer, renders, single, batch, run>>

\* loadPdfDocument resolved: the document is installed, the cache cleared and
\* renderCurrentPage(doc, 1, resolutionScale) is called and awaited.
UploadLoaded(j) ==
  /\ Quiet
  /\ j \in 1..Len(uploads) /\ uploads[j].pc = "load"
  /\ pdfDoc' = uploads[j].file
  /\ numPages' = NumPagesOf(uploads[j].file)
  /\ currentPage' = 1
  /\ colorizedPages' = <<>>
  /\ batchProgress' = None
  /\ isRenderingPdf' = TRUE
  /\ uploads' = [uploads EXCEPT ![j].pc = "render"]
  /\ UNCHANGED <<file, originalPageImage, settings, isProcessing, error,
                 renders, single, batch, run>>
  /\ RenderEffect

UploadLoadFail(j) ==
  /\ Quiet
  /\ j \in 1..Len(uploads) /\ uploads[j].pc = "load"
  /\ error' = ErrLoad
  /\ isRenderingPdf' = FALSE
  /\ uploads' = RemoveAt(uploads, j)
  /\ UNCHANGED <<docState, originalPageImage, colorizedPages, settings, isProcessing,
                 batchProgress, timer, renders, single, batch, run>>

\* ------------------------------------------------------- renderCurrentPage
RenderCurrentPageOk(doc, pageNum, scale) ==
  /\ originalPageImage' = Some(RenderedPage(doc, pageNum, scale))
  /\ isRenderingPdf' = FALSE
  /\ error' = error

RenderCurrentPageFail ==
  /\ error' = ErrRender
  /\ isRenderingPdf' = FALSE
  /\ originalPageImage' = originalPageImage

UploadRenderOk(j) ==
  /\ Quiet
  /\ j \in 1..Len(uploads) /\ uploads[j].pc = "render"
  /\ RenderCurrentPageOk(uploads[j].file, 1, uploads[j].scale)
  /\ uploads' = RemoveAt(uploads, j)
  /\ UNCHANGED <<docState, colorizedPages, settings, isProcessing, batchProgress,
                 timer, renders, single, batch, run>>

UploadRenderFail(j) ==
  /\ Quiet
  /\ j \in 1..Len(uploads) /\ uploads[j].pc = "render"
  /\ RenderCurrentPageFail
  /\ uploads' = RemoveAt(uploads, j)
  /\ UNCHANGED <<docState, colorizedPages, settings, isProcessing, batchProgress,
                 timer, renders, single, batch, run>>

\* The debounce timer fires: renderCurrentPage(pdfDoc, currentPage, resolutionScale)
\* with the values of the render that set the timer.
TimerFire ==
  /\ Quiet
  /\ timer # None
  /\ Len(renders) < MaxRenders
  /\ renders' = Append(renders, timer[1])
  /\ timer' = None
  /\ isRenderingPdf' = TRUE
  /\ UNCHANGED <<docState, originalPageImage, colorizedPages, settings, isProcessing,
                 batchProgress, error, uploads, single, batch, run>>

PreviewRenderOk(j) ==
  /\ Quiet
  /\ j \in 1..Len(renders)
  /\ RenderCurrentPageOk(renders[j].doc, renders[j].page, renders[j].scale)
  /\ renders' = RemoveAt(renders, j)
  /\ UNCHANGED <<docState, colorizedPages, settings, isProcessing, batchProgress,
                 timer, uploads, single, batch, run>>

PreviewRenderFail(j) ==
  /\ Quiet
  /\ j \in 1..Len(renders)
  /\ RenderCurrentPageFail
  /\ renders' = RemoveAt(renders, j)
  /\ UNCHANGED <<docState, colorizedPages, settings, isProcessing, batchProgress,
                 timer, uploads, single, batch, run>>

\* ------------------------------------------------------------- navigation
PrevPage ==
  /\ Gesture /\ saved' = None
  /\ file # 0
  /\ ~(currentPage = 1 \/ isProcessing)
  /\ currentPage' = Max(1, currentPage - 1)
  /\ UNCHANGED <<file, pdfDoc, numPages, originalPageImage, colorizedPages, settings,
                 flags, procs>>
  /\ RenderEffect

NextPage ==
  /\ Gesture /\ saved' = None
  /\ file # 0
  /\ ~(currentPage = numPages \/ isProcessing)
  /\ currentPage' = Min(numPages, currentPage + 1)
  /\ UNCHANGED <<file, pdfDoc, numPages, originalPageImage, colorizedPages, settings,
                 flags, procs>>
  /\ RenderEffect

\* --------------------------------------------------------------- settings
SetTheme(t) ==
  /\ Gesture /\ saved' = None
  /\ file # 0
  /\ selectedTheme' = t
  /\ UNCHANGED <<docState, originalPageImage, colorizedPages, customColorHex,
                 resolutionScale, boldness, marginPercent, flags, timer, procs>>

PickCustomColor(h) ==
  /\ Gesture /\ saved' = None
  /\ file # 0
  /\ customColorHex' = h
  /\ selectedTheme' = "custom"
  /\ UNCHANGED <<docState, originalPageImage, colorizedPages,
                 resolutionScale, boldness, marginPercent, flags, timer, procs>>

SetResolution(s) ==
  /\ Gesture /\ saved' = None
  /\ file # 0
  /\ resolutionScale' = s
  /\ UNCHANGED <<docState, originalPageImage, colorizedPages, selectedTheme,
                 customColorHex, boldness, marginPercent, flags, procs>>
  /\ RenderEffect

SetBoldness(b) ==
  /\ Gesture /\ saved' = None
  /\ file # 0
  /\ boldness' = b
  /\ UNCHANGED <<docState, originalPageImage, colorizedPages, selectedTheme,
                 customColorHex, resolutionScale, marginPercent, flags, timer, procs>>

SetMargin(m) ==
  /\ Gesture /\ saved' = None
  /\ file # 0
  /\ marginPercent' = m
  /\ UNCHANGED <<docState, originalPageImage, colorizedPages, selectedTheme,
                 customColorHex, resolutionScale, boldness, flags, timer, procs>>

\* ------------------------------------------------------------ handleReset
Reset ==
  /\ Gesture /\ saved' = None
  /\ file # 0
  /\ file' = 0
  /\ pdfDoc' = 0
  /\ colorizedPages' = <<>>
  /\ originalPageImage' = None
  /\ currentPage' = 1
  /\ error' = NoError
  /\ batchProgress' = None
  /\ selectedTheme' = "black"
  /\ marginPercent' = DefaultMargin
  /\ resolutionScale' = DefaultScale
  /\ boldness' = DefaultBoldness
  /\ UNCHANGED <<numPages, customColorHex, isProcessing, isRenderingPdf, procs>>
  /\ RenderEffect

\* ------------------------------------- single page (handleColorizeCurrent)
\* Faulty variant: the colorize buttons stay enabled.
ColorizeNeverDisabled == FALSE

\* disabled={isProcessing} on both colorize buttons.
ColorizeDisabled == isProcessing

ColorizeCurrentStart ==
  /\ Gesture /\ saved' = None
  /\ file # 0
  /\ ~ColorizeDisabled
  /\ originalPageImage # None
  /\ isProcessing' = TRUE
  /\ error' = NoError
  /\ single' = Some([image |-> originalPageImage[1], page |-> currentPage,
                     hex |-> getActiveHexColor, bold |-> boldness])
  /\ UNCHANGED <<docState, originalPageImage, colorizedPages, settings, batchProgress,
                 isRenderingPdf, timer, uploads, renders, batch, run>>

SingleWrite(s) ==
  colorizedPages' =
    MapSet(colorizedPages, s.page,
           ColorizedPageData(Colorized(s.image.dataUrl, s.hex, s.bold),
                             s.image.width, s.image.height))

SingleOk ==
  /\ Quiet
  /\ single # None
  /\ SingleWrite(single[1])
  /\ isProcessing' = FALSE
  /\ single' = None
  /\ UNCHANGED <<docState, originalPageImage, settings, batchProgress, isRenderingPdf,
                 error, timer, uploads, renders, batch, run>>

\* Faulty variant: the failure is swallowed as in a batch run.
SingleFailureSwallowed(e) ==
  /\ error' = error
  /\ isProcessing' = FALSE
  /\ colorizedPages' = colorizedPages

SingleFailure(e) ==
  /\ error' = e
  /\ isProcessing' = FALSE
  /\ colorizedPages' = colorizedPages

SingleError(e) ==
  /\ Quiet
  /\ single # None
  /\ SingleFailure(e)
  /\ single' = None
  /\ UNCHANGED <<docState, originalPageImage, settings, batchProgress, isRenderingPdf,
                 timer, uploads, renders, batch, run>>

SingleThrow ==
  /\ Quiet
  /\ single # None
  /\ SingleFailure(ErrUnexpected)
  /\ single' = None
  /\ UNCHANGED <<docState, originalPageImage, settings, batchProgress, isRenderingPdf,
                 timer, uploads, renders, batch, run>>

\* ------------------------------------------- batch run (handleColorizeAll)
\* Faulty variant: the render call re-reads the live resolution setting.
RenderArgsLive(b) == [doc |-> b.doc, page |-> b.i, scale |-> resolutionScale]

\* The arguments of the renderPageToImage call of iteration b.i.
RenderArgs(b) == [doc |-> b.doc, page |-> b.i, scale |-> b.scale]

\* The arguments of the colorizeImage call on the rendered page.
TransformArgs(b, rendered) ==
  [dataUrl |-> rendered.dataUrl, hex |-> b.hex, bold |-> b.bold,
   width |-> rendered.width, height |-> rendered.height]

\* Faulty variant: the run ends without clearing the processing flag.
BatchFinallyKeepsFlag(r) ==
  /\ isProcessing' = isProcessing
  /\ batchProgress' = None
  /\ batch' = IdleBatch
  /\ run' = [r EXCEPT !.active = FALSE]

\* finally: the run ends.
BatchFinally(r) ==
  /\ isProcessing' = FALSE
  /\ batchProgress' = None
  /\ batch' = IdleBatch
  /\ run' = [r EXCEPT !.active = FALSE]

\* Faulty variant: progress is published for the page just completed, after
\* its cache write, instead of for the page about to be processed.
BatchAdvancePublishesAfter(b, r, processing) ==
  IF b.i < b.n
  THEN LET nb == [b EXCEPT !.i = b.i + 1, !.pc = "render"]
           c == RenderArgs(nb)
       IN /\ batch' = [nb EXCEPT !.call = c]
          /\ batchProgress' = Some([current |-> b.i, total |-> b.n])
          /\ isProcessing' = processing
          /\ run' = [r EXCEPT !.published = @ \cup {b.i},
                              !.rendered = @ \cup {c.page},
                              !.usedScales = @ \cup {c.scale}]
  ELSE BatchFinally(r)

\* The loop header after iteration b.i: the next iteration publishes its
\* progress and calls renderPageToImage, or the loop ends and finally runs.
BatchAdvance(b, r, processing) ==
  IF b.i < b.n
  THEN LET nb == [b EXCEPT !.i = b.i + 1, !.pc = "render"]
           c == RenderArgs(nb)
       IN /\ batch' = [nb EXCEPT !.call = c]
          /\ batchProgress' = Some([current |-> nb.i, total |-> nb.n])
          /\ isProcessing' = processing
          /\ run' = [r EXCEPT !.published = @ \cup {nb.i},
                              !.rendered = @ \cup {c.page},
                              !.usedScales = @ \cup {c.scale}]
  ELSE BatchFinally(r)

BatchStart ==
  /\ Gesture /\ saved' = None
  /\ file # 0
  /\ ~ColorizeDisabled
  /\ pdfDoc # 0
  /\ error' = NoError
  /\ BatchAdvance([IdleBatch EXCEPT !.doc = pdfDoc, !.n = numPages,
                                    !.scale = resolutionScale,
                                    !.hex = getActiveHexColor, !.bold = boldness,
                                    !.map = colorizedPages],
                  [NoRun EXCEPT !.active = TRUE, !.n = numPages,
                                !.atStart = Some([scale |-> resolutionScale,
                                                  hex |-> getActiveHexColor,
                                                  bold |-> boldness])],
                  TRUE)
  /\ UNCHANGED <<docState, originalPageImage, colorizedPages, settings, isRenderingPdf,
                 timer, uploads, renders, single>>

BatchRenderOk ==
  /\ Quiet
  /\ batch.pc = "render"
  /\ LET t == TransformArgs(batch, RenderedPage(batch.call.doc, batch.call.page, batch.call.scale))
     IN /\ batch' = [batch EXCEPT !.pc = "transform", !.tcall = t]
        /\ run' = [run EXCEPT !.transformed = @ \cup {batch.i},
                              !.usedColors = @ \cup {[hex |-> t.hex, bold |-> t.bold]}]
  /\ UNCHANGED <<docState, originalPageImage, colorizedPages, settings, flags,
                 timer, uploads, renders, single>>

\* Faulty variant: the aborted run throws its partial results away.
BatchCatchClearsCache(r) ==
  /\ error' = ErrBatch
  /\ colorizedPages' = <<>>
  /\ BatchFinally([r EXCEPT !.errors = @ + 1, !.logged = @ \cup {batch.i}])

\* Faulty variant: the exception is reported and the loop goes on.
BatchCatchContinues(r) ==
  /\ error' = ErrBatch
  /\ colorizedPages' = colorizedPages
  /\ BatchAdvance(batch, [r EXCEPT !.errors = @ + 1, !.logged = @ \cup {batch.i}],
                  isProcessing)

\* catch (err), then finally: any exception inside the try ends the run.
BatchCatch(r) ==
  /\ error' = ErrBatch
  /\ colorizedPages' = colorizedPages
  /\ BatchFinally([r EXCEPT !.errors = @ + 1, !.logged = @ \cup {batch.i}])

BatchRenderThrow ==
  /\ Quiet
  /\ batch.pc = "render"
  /\ BatchCatch([run EXCEPT !.renderFailed = @ \cup {batch.i}])
  /\ UNCHANGED <<docState, originalPageImage, settings, isRenderingPdf,
                 timer, uploads, renders, single>>

BatchTransformThrow ==
  /\ Quiet
  /\ batch.pc = "transform"
  /\ BatchCatch([run EXCEPT !.transformThrew = @ \cup {batch.i}])
  /\ UNCHANGED <<docState, originalPageImage, settings, isRenderingPdf,
                 timer, uploads, renders, single>>

\* result.imageUrl: the page is set in the run's own map, which replaces the cache.
BatchWrite(b) ==
  MapSet(b.map, b.i,
         ColorizedPageData(Colorized(b.tcall.dataUrl, b.tcall.hex, b.tcall.bold),
                           b.tcall.width, b.tcall.height))

BatchTransformOk ==
  /\ Quiet
  /\ batch.pc = "transform"
  /\ colorizedPages' = BatchWrite(batch)
  /\ BatchAdvance([batch EXCEPT !.map = BatchWrite(batch)],
                  [run EXCEPT !.written = @ \cup {batch.i}], isProcessing)
  /\ UNCHANGED <<docState, originalPageImage, settings, isRenderingPdf, error,
                 timer, uploads, renders, single>>

\* Faulty variant: an error result ends the run like an exception.
BatchSkipAborts(b, r) == BatchCatch([r EXCEPT !.transformFailed = @ \cup {b.i}])

\* result.error: logged, and the loop goes on.
BatchSkip(b, r) ==
  /\ colorizedPages' = colorizedPages
  /\ error' = error
  /\ BatchAdvance(b, [r EXCEPT !.logged = @ \cup {b.i},
                               !.transformFailed = @ \cup {b.i}], isProcessing)

BatchTransformError ==
  /\ Quiet
  /\ batch.pc = "transform"
  /\ BatchSkip(batch, run)
  /\ UNCHANGED <<docState, originalPageImage, settings, isRenderingPdf,
                 timer, uploads, renders, single>>

\* ------------------------------------------ download (handleDownloadPDF)
\* jsPDF: a new document holds one empty page; addPage appends a page and
\* makes it current; addImage draws on the current page.
A4Page == [width |-> 446, height |-> 631, images |-> <<>>]
NewJsPDF == <<A4Page>>
AddPage(d, w, h) == Append(d, [width |-> w, height |-> h, images |-> <<>>])
AddImage(d, url, x, y, w, h) ==
  [d EXCEPT ![Len(d)].images =
     Append(@, [imageUrl |-> url, x |-> x, y |-> y, width |-> w, height |-> h])]
DeletePage(d, n) == RemoveAt(d, n)
GetNumberOfPages(d) == Len(d)

\* Array.from(colorizedPages.entries()).sort((a, b) => a[0] - b[0])
InsertSorted(e, s) ==
  SelectSeq(s, LAMBDA x : x.page < e.page) \o <<e>> \o SelectSeq(s, LAMBDA x : x.page >= e.page)

\* Faulty variant: the entries are taken in insertion order.
UnsortedPages(m) == m

RECURSIVE SortedPages(_)
SortedPages(m) == IF m = <<>> THEN <<>> ELSE InsertSorted(m[Len(m)], SortedPages(SubSeq(m, 1, Len(m) - 1)))

\* Math.floor(width * (marginPercent / 100))
MarginPx(width, margin) == FloorOfPercent(width, margin)

\* One forEach step: a page of the padded size, the image at the margin offset.
AddColorizedPage(d, data, margin) ==
  LET marginPx == MarginPx(data.width, margin)
      pageWidth == data.width + marginPx * 2
      pageHeight == data.height + marginPx * 2
  IN AddImage(AddPage(d, pageWidth, pageHeight), data.imageUrl,
              marginPx, marginPx, data.width, data.height)

RECURSIVE AddAllPages(_, _, _)
AddAllPages(d, sortedPages, margin) ==
  IF sortedPages = <<>> THEN d
  ELSE AddAllPages(AddColorizedPage(d, Head(sortedPages).data, margin), Tail(sortedPages), margin)

\* The default first page is deleted when the document holds more pages than entries.
DropDefaultPage(d, sortedPages) ==
  IF GetNumberOfPages(d) > Len(sortedPages) THEN DeletePage(d, 1) ELSE d

AssemblePdf(pages, margin) ==
  LET sortedPages == SortedPages(pages)
  IN DropDefaultPage(AddAllPages(NewJsPDF, sortedPages, margin), sortedPages)

\* Faulty variant: the handler assembles and saves whatever the cache holds.
SaveUnguarded(pages, margin) == Some(AssemblePdf(pages, margin))

\* What handleDownloadPDF hands to doc.save: nothing when the cache is empty.
SaveResult(pages, margin) ==
  IF Len(pages) = 0 THEN None ELSE Some(AssemblePdf(pages, margin))

\* The handler, called in the current render.
HandleDownloadPDF ==
  /\ Gesture
  /\ saved' = SaveResult(colorizedPages, marginPercent)
  /\ UNCHANGED <<docState, originalPageImage, colorizedPages, settings, flags, timer, procs>>

\* A click on the Download PDF button, shown while the cache is not empty.
DownloadPDF ==
  /\ file # 0
  /\ ~isProcessing
  /\ Len(colorizedPages) # 0
  /\ HandleDownloadPDF

DownloadFail ==
  /\ Gesture /\ saved' = None
  /\ file # 0
  /\ ~isProcessing
  /\ Len(colorizedPages) # 0
  /\ error' = ErrDownload
  /\ UNCHANGED <<docState, originalPageImage, colorizedPages, settings, isProcessing,
                 batchProgress, isRenderingPdf, timer, procs>>

\* ------------------------------------------------------------------- Next
BatchRenderReturns == BatchRenderOk \/ BatchRenderThrow
BatchTransformReturns == BatchTransformOk \/ BatchTransformError \/ BatchTransformThrow

Next ==
  \/ \E f \in Docs : Upload(f)
  \/ \E j \in 1..MaxUploads : UploadLoaded(j)
  \/ \E j \in 1..MaxUploads : UploadLoadFail(j)
  \/ \E j \in 1..MaxUploads : UploadRenderOk(j)
  \/ \E j \in 1..MaxUploads : UploadRenderFail(j)
  \/ TimerFire
  \/ \E j \in 1..MaxRenders : PreviewRenderOk(j)
  \/ \E j \in 1..MaxRenders : PreviewRenderFail(j)
  \/ PrevPage
  \/ NextPage
  \/ \E t \in ThemeChoices : SetTheme(t)
  \/ \E h \in PickerChoices : PickCustomColor(h)
  \/ \E s \in ScaleChoices : SetResolution(s)
  \/ \E b \in BoldnessChoices : SetBoldness(b)
  \/ \E m \in MarginChoices : SetMargin(m)
  \/ Reset
  \/ ColorizeCurrentStart
  \/ SingleOk
  \/ \E e \in TransformErrors : SingleError(e)
  \/ SingleThrow
  \/ BatchStart
  \/ BatchRenderOk
  \/ BatchRenderThrow
  \/ BatchTransformOk
  \/ BatchTransformError
  \/ BatchTransformThrow
  \/ DownloadPDF
  \/ DownloadFail

Spec == Init /\ [][Next]_vars
LongSpec == InitLong /\ [][Next]_vars

\* Every render and every transform call of a batch run eventually returns.
FairSpec == Spec /\ WF_vars(BatchRenderReturns) /\ WF_vars(BatchTransformReturns)

\* ------------------------------------------------- assembly on any cache
\* handleDownloadPDF as a function of the page cache and the margin: the
\* session holds a loaded document of MaxKeys pages and any cache the single
\* page and batch operations can leave, that is any set of its pages in any
\* insertion order, each rendered at one of two scales, and any margin the
\* margin controls can set.  The handler is called on every such state.
RECURSIVE Caches(_)
Caches(keys) ==
  {<<>>} \cup
  UNION {{Append(m, [page |-> k,
                     data |-> LET r == RenderedPage(LongDoc.id, k, sc)
                              IN ColorizedPageData(Colorized(r.dataUrl, ThemeHex("black"),
                                                             DefaultBoldness),
                                                   r.width, r.height)]) :
            m \in Caches(keys \ {k}), sc \in AssembleScales} : k \in keys}

InitAssemble ==
  /\ canvas = NoCanvas
  /\ file = LongDoc.id /\ pdfDoc = LongDoc.id /\ numPages = NumPagesOf(LongDoc.id)
  /\ currentPage = 1
  /\ originalPageImage = Some(RenderedPage(LongDoc.id, 1, DefaultScale))
  /\ colorizedPages \in Caches(1..MaxKeys)
  /\ selectedTheme = "black" /\ customColorHex = "#6366f1"
  /\ resolutionScale = DefaultScale /\ boldness = DefaultBoldness
  /\ marginPercent \in MarginRange
  /\ isProcessing = FALSE /\ batchProgress = None /\ isRenderingPdf = FALSE
  /\ error = NoError
  /\ timer = None /\ uploads = <<>> /\ renders = <<>> /\ single = None
  /\ batch = IdleBatch /\ run = NoRun /\ saved = None
  /\ budget = 1

NextAssemble == HandleDownloadPDF \/ DownloadFail

AssembleSpec == InitAssemble /\ [][NextAssemble]_vars

\* ------------------------------------------ the transform (colorizeImage)
\* hexToRgb on the colours of the themes and the picker; black when the
\* string is no six-digit hex colour.
HexToRgb(hex) ==
  CASE hex = "#000000" -> [r |-> 0, g |-> 0, b |-> 0]
    [] hex = "#10B981" -> [r |-> 16, g |-> 185, b |-> 129]
    [] hex = "#3B82F6" -> [r |-> 59, g |-> 130, b |-> 246]
    [] hex = "#EF4444" -> [r |-> 239, g |-> 68, b |-> 68]
    [] hex = "#8B5CF6" -> [r |-> 139, g |-> 92, b |-> 246]
    [] hex = "#F97316" -> [r |-> 249, g |-> 115, b |-> 22]
    [] hex = "#6366f1" -> [r |-> 99, g |-> 102, b |-> 241]
    [] hex = "#ff0000" -> [r |-> 255, g |-> 0, b |-> 0]
    [] OTHER -> [r |-> 0, g |-> 0, b |-> 0]

\* Faulty variant: the white point is not lowered.
WhitePointFixed(bold) == 255

\* Faulty variant: the white point falls as boldness rises.
WhitePointReversed(bold) == 255 - FloorOfPercent(10, bold)

\* Faulty variant: the black point is scaled to 300.
BlackPointWide(bold) == FloorOfPercent(300, bold)

\* Math.floor((boldness / 100) * 200)
BlackPoint(bold) == FloorOfPercent(200, bold)

\* 255 - Math.floor(((100 - boldness) / 100) * 10)
WhitePoint(bold) == 255 - FloorOfPercent(10, 100 - bold)

\* 1.0 + (boldness / 100) * 3.0, in hundredths.
Gamma(bold) == 100 + 3 * bold

\* Math.round(c * (1 - t) + 255 * t) for t = t.n / t.d in 0..1.
Mix(c, t) == (2 * (c * (t.d - t.n) + 255 * t.n) + t.d) \div (2 * t.d)

\* Faulty variant: transparent pixels are processed like the others.
SkipsNone(px) == FALSE

\* if (a === 0) continue
Skips(px) == px.a = 0

\* One iteration of the pixel loop.  Luminance is kept in thousandths and t
\* as a fraction.  Math.pow(t, gamma) is computed for gamma = 1 only; for any
\* other gamma its result is the level u / CurveLevels, any value of 0..1.
MapPixel(px, target, blackPoint, whitePoint, gamma, u) ==
  IF Skips(px) THEN px
  ELSE LET luminance == 299 * px.r + 587 * px.g + 114 * px.b
           tn == luminance - 1000 * blackPoint
           td == 1000 * (whitePoint - blackPoint)
           t == IF tn <= 0 THEN [n |-> 0, d |-> 1]
                ELSE IF tn >= td THEN [n |-> 1, d |-> 1]
                ELSE IF gamma = 100 THEN [n |-> tn, d |-> td]
                ELSE [n |-> u, d |-> CurveLevels]
       IN [r |-> Mix(target.r, t), g |-> Mix(target.g, t), b |-> Mix(target.b, t), a |-> px.a]

\* img.onload with a 2d context: the parameters, the pixel loop, the result.
ColorizeImageOnLoad ==
  /\ canvas.pc = "loading"
  /\ \E u \in [1..Len(canvas.img) -> 0..CurveLevels] :
       LET blackPoint == BlackPoint(canvas.boldness)
           whitePoint == WhitePoint(canvas.boldness)
           gamma == Gamma(canvas.boldness)
           target == HexToRgb(canvas.hex)
       IN canvas' = [canvas EXCEPT
                       !.pc = "resolved",
                       !.blackPoint = blackPoint, !.whitePoint = whitePoint, !.gamma = gamma,
                       !.data = [i \in 1..Len(canvas.img) |->
                                   MapPixel(canvas.img[i], target, blackPoint, whitePoint,
                                            gamma, u[i])]]
  /\ saved' = None /\ budget' = budget
  /\ UNCHANGED <<docState, originalPageImage, colorizedPages, settings, flags, timer, procs>>

\* No 2d context, an exception in the handler, or img.onerror: an error result.
ColorizeImageError(e) ==
  /\ canvas.pc = "loading"
  /\ canvas' = [canvas EXCEPT !.pc = "resolved", !.error = e]
  /\ saved' = None /\ budget' = budget
  /\ UNCHANGED <<docState, originalPageImage, colorizedPages, settings, flags, timer, procs>>

\* Images of one to MaxPixels pixels.
Images == UNION {[1..n -> PixelChoices] : n \in 1..MaxPixels}

\* A session with a document loaded and its first page rendered.
Loaded ==
  /\ file = 1 /\ pdfDoc = 1 /\ numPages = NumPagesOf(1)
  /\ currentPage = 1
  /\ originalPageImage = Some(RenderedPage(1, 1, DefaultScale))
  /\ colorizedPages = <<>>
  /\ selectedTheme = "black" /\ customColorHex = "#6366f1"
  /\ resolutionScale = DefaultScale /\ boldness = DefaultBoldness
  /\ marginPercent = DefaultMargin
  /\ isProcessing = FALSE /\ batchProgress = None /\ isRenderingPdf = FALSE
  /\ error = NoError
  /\ timer = None /\ uploads = <<>> /\ renders = <<>> /\ single = None
  /\ batch = IdleBatch /\ run = NoRun /\ saved = None

\* A colorizeImage call on any image, target colour and whole boldness of
\* 0..100.
InitTransform ==
  /\ Loaded
  /\ \E img \in Images, hex \in TargetChoices, bold \in BoldnessRange :
       canvas = [NoCanvas EXCEPT !.pc = "loading", !.img = img, !.hex = hex,
                                 !.boldness = bold]
  /\ budget = 0

\* The session at the boldness slider and the Clear button.
InitSlider == Loaded /\ canvas = NoCanvas /\ budget = MaxGestures

NextTransform ==
  \/ ColorizeImageOnLoad
  \/ \E e \in TransformErrors : ColorizeImageError(e)
  \/ \E b \in SliderBoldness : SetBoldness(b)
  \/ Reset

\* The behaviours of a call, and those of the session that sets its boldness.
TransformSpec == (InitTransform \/ InitSlider) /\ [][NextTransform]_vars

\* ================================================================ claims
RunEnded == run.atStart # None /\ ~run.active
Pages(r) == 1..r.n
Current == IF batchProgress = None THEN 0 ELSE batchProgress[1].current

\* C1: in a batch run over N pages in which the render of exactly one page k
\* fails (and nothing else does), the finished run has written every other
\* page of 1..N and not k, has logged page k, and has published
\* BatchProgress{current: N, total: N}.
C1_RenderFailureIsolated ==
  (RunEnded /\ Cardinality(run.renderFailed) = 1
            /\ run.transformFailed = {} /\ run.transformThrew = {})
    => \A k \in run.renderFailed :
         /\ run.written = Pages(run) \ {k}
         /\ k \in run.logged
         /\ run.n \in run.published

\* C2: in a batch run whose only failures are transform error results, each
\* failed page is logged and not written, the run never sets the error slot,
\* and every page of 1..N is rendered and transformed: the pages after a
\* failed one are processed like the others.
C2_TransformFailureSkipsPage ==
  (run.atStart # None /\ run.renderFailed = {} /\ run.transformThrew = {})
    => /\ run.errors = 0
       /\ run.logged = run.transformFailed
       /\ run.written \cap run.transformFailed = {}
       /\ RunEnded => /\ run.rendered = Pages(run)
                      /\ run.transformed = Pages(run)
                      /\ run.written = Pages(run) \ run.transformFailed

C2_Witness ==
  /\ RunEnded
  /\ run.n >= 2
  /\ run.transformFailed = {1}
  /\ run.written = 2..run.n
  /\ run.errors = 0

\* C3 as stated: whenever the run writes page k to the cache (page k
\* succeeds), the progress published at that moment is not yet current = k:
\* the cache write for k comes before BatchProgress{current: k}.
C3_CacheBeforeProgress ==
  [][\A k \in 1..MaxPages :
       (run'.atStart # None /\ k \notin run.written /\ k \in run'.written)
         => Current # k]_vars

\* C3 as amended: BatchProgress{current: k} is published when iteration k
\* starts, before page k is rendered, and the cache is written for k after
\* it: every page the run has written had its progress published, and while
\* the published progress shows current = k the run is at page k and has not
\* yet written it.
C3_ProgressBeforeCache ==
  /\ run.written \subseteq run.published
  /\ batchProgress # None =>
       /\ run.active
       /\ batchProgress[1] = [current |-> batch.i, total |-> batch.n]
       /\ batch.i \notin run.written

C3_Witness ==
  /\ run.active
  /\ Current = 2
  /\ run.written = {1}
  /\ 1 \in Keys(colorizedPages)

\* C4: every render call of a batch run uses the render scale, and every
\* transform call the target colour and boldness, that were in effect when
\* the run started, whatever the settings are when the call is made.
C4_SettingsCapturedAtStart ==
  run.atStart # None =>
    /\ run.usedScales \subseteq {run.atStart[1].scale}
    /\ run.usedColors \subseteq {[hex |-> run.atStart[1].hex, bold |-> run.atStart[1].bold]}

\* The transform call for a later page of the run is in flight while the
\* live target colour differs from the colour the run started with.
C4_Witness ==
  /\ run.active
  /\ batch.pc = "transform"
  /\ Cardinality(run.transformed) >= 2
  /\ getActiveHexColor # run.atStart[1].hex
  /\ batch.tcall.hex = run.atStart[1].hex

\* C5: every batch run that starts ends (its render and transform calls
\* returning), and the step that ends it, whether all pages were done, some
\* failed or the run was aborted, leaves BatchProgress absent and the
\* processing flag false.
C5_RunAlwaysEnds ==
  /\ run.active ~> (~run.active /\ batchProgress = None /\ ~isProcessing)
  /\ [][(run.active /\ ~run'.active) => (batchProgress' = None /\ ~isProcessing')]_vars

C5_Witness ==
  /\ RunEnded
  /\ run.renderFailed # {}
  /\ batchProgress = None
  /\ ~isProcessing

\* C6: every key of the page cache is in 1..numPages.
C6_CacheKeysInRange == Keys(colorizedPages) \subseteq 1..numPages

\* C7: once an exception has ended a batch run at page k, the run is over, no
\* page after k was rendered, transformed or written by it, and it set the
\* error slot exactly once.
C7_FaultAbortsRun ==
  \A k \in run.renderFailed \cup run.transformThrew :
    /\ ~run.active
    /\ run.errors = 1
    /\ run.rendered \subseteq 1..k
    /\ run.transformed \subseteq 1..k
    /\ run.written \subseteq 1..k

C7_Witness ==
  /\ run.renderFailed = {1}
  /\ run.n >= 2
  /\ run.rendered = {1}
  /\ error = ErrBatch

\* The steps with an error outcome.
PreviewFailure ==
  \/ \E j \in 1..MaxRenders : PreviewRenderFail(j)
  \/ \E j \in 1..MaxUploads : UploadRenderFail(j)
SingleFailed == SingleThrow \/ \E e \in TransformErrors : SingleError(e)
ErrorOutcome ==
  \/ PreviewFailure
  \/ SingleFailed
  \/ BatchTransformError
  \/ BatchRenderThrow
  \/ BatchTransformThrow
  \/ DownloadFail

\* C8: a step with an error outcome (preview render failure, single-page
\* transform failure, per-page batch failure, batch abort, PDF assembly
\* failure) leaves every page-cache entry as it was and the document loaded.
C8_ErrorsKeepCacheAndDocument ==
  [][ErrorOutcome => (colorizedPages' = colorizedPages /\ pdfDoc' = pdfDoc /\ file' = file)]_vars

C8_Witness ==
  /\ error = ErrBatch
  /\ Len(colorizedPages) > 0
  /\ pdfDoc # 0
  /\ run.written # {}

\* C9: in single-page mode the step that ends a failed operation puts the
\* failure in the error slot and clears the operation's flag: a failed
\* preview render leaves "Failed to render page." and isRenderingPdf false, a
\* failed colorize-current leaves its error result (or the unexpected-error
\* message after an exception) and isProcessing false.
C9_SinglePageFailureSurfaced ==
  [][/\ PreviewFailure => (error' = ErrRender /\ ~isRenderingPdf')
     /\ \A e \in TransformErrors :
          SingleError(e) => (error' = e /\ ~isProcessing' /\ single' = None)
     /\ SingleThrow => (error' = ErrUnexpected /\ ~isProcessing' /\ single' = None)]_vars

C9_Witness ==
  /\ error \in TransformErrors
  /\ ~isProcessing
  /\ single = None
  /\ originalPageImage # None

\* C10: the document saved from a non-empty page cache has one page per cache
\* entry and no other page; the page at position r carries exactly the image
\* of the entry whose page number is the r-th smallest key.
Rank(k) == Cardinality({q \in Keys(colorizedPages) : q <= k})
C10_SavedPagesMatchCache ==
  saved # None =>
    /\ Len(colorizedPages) # 0
    /\ Len(saved[1]) = Len(colorizedPages)
    /\ \A j \in 1..Len(colorizedPages) :
         LET e == colorizedPages[j]
             pg == saved[1][Rank(e.page)]
         IN /\ Len(pg.images) = 1
            /\ pg.images[1].imageUrl = e.data.imageUrl

\* A download of a cache with a missing page number whose entries were
\* inserted out of page order.
C10_Witness ==
  /\ saved # None
  /\ Len(colorizedPages) = 2
  /\ colorizedPages[1].page = 3
  /\ colorizedPages[2].page = 1
  /\ Len(saved[1]) = 2

\* C11: a call of handleDownloadPDF on an empty page cache hands no document
\* to save.
C11_NoSaveOnEmptyCache ==
  [][(colorizedPages = <<>> /\ HandleDownloadPDF) => saved' = None]_vars

\* The handler was called on an empty cache, and nothing was saved.
C11_Witness ==
  /\ budget = 0
  /\ colorizedPages = <<>>
  /\ saved = None
  /\ error = NoError

\* C12: the page saved for an artifact of width w and height h under margin
\* m has size (w + 2*floor(w*m/100), h + 2*floor(w*m/100)) and carries the
\* image at size (w, h) at offset (floor(w*m/100), floor(w*m/100)).
C12_MarginGeometry ==
  saved # None =>
    \A j \in 1..Len(colorizedPages) :
      LET e == colorizedPages[j]
          pg == saved[1][Rank(e.page)]
          marginPx == (e.data.width * marginPercent) \div 100
      IN /\ pg.width = e.data.width + 2 * marginPx
         /\ pg.height = e.data.height + 2 * marginPx
         /\ pg.images = <<[imageUrl |-> e.data.imageUrl, x |-> marginPx, y |-> marginPx,
                           width |-> e.data.width, height |-> e.data.height]>>

\* A colorizeImage call that resolved with an image.
Transformed == canvas.pc = "resolved" /\ canvas.error = NoError
Params == <<canvas.blackPoint, canvas.whitePoint, canvas.gamma>>
Opaque(px) == px.a = 255
Black == [r |-> 0, g |-> 0, b |-> 0]
White == [r |-> 255, g |-> 255, b |-> 255]
Rgb(px) == [r |-> px.r, g |-> px.g, b |-> px.b]

\* C13 as stated: with boldness 0 the transform uses blackPoint 0, whitePoint
\* 255 and gamma 1.0.
C13_ParamsAtZero ==
  (Transformed /\ canvas.boldness = 0) => Params = <<0, 255, 100>>

\* C13 as amended: with boldness 0 the transform uses blackPoint 0,
\* whitePoint 245 and gamma 1.0.
C13_ParamsAtZeroWhite245 ==
  (Transformed /\ canvas.boldness = 0) => Params = <<0, 245, 100>>

\* A half-transparent grey pixel mapped at boldness 0 towards black: the map
\* is linear up to the white point 245, round(255 * 128 / 245) = 133.
C13_Witness ==
  /\ Transformed
  /\ canvas.boldness = 0
  /\ canvas.hex = "#000000"
  /\ canvas.img[1] = [r |-> 128, g |-> 128, b |-> 128, a |-> 128]
  /\ canvas.data[1] = [r |-> 133, g |-> 133, b |-> 133, a |-> 128]

\* The pixels of luminance 0 and 255 under target colour (0,0,0).
EndsMapped ==
  \A i \in 1..Len(canvas.img) :
    /\ (Opaque(canvas.img[i]) /\ Rgb(canvas.img[i]) = Black) => Rgb(canvas.data[i]) = Black
    /\ (Opaque(canvas.img[i]) /\ Rgb(canvas.img[i]) = White) => Rgb(canvas.data[i]) = White

\* C14 as stated: with target colour (0,0,0) and boldness 60 the transform
\* uses blackPoint 120, whitePoint 249 and gamma 2.8, and maps an opaque
\* pixel of luminance 0 to (0,0,0) and one of luminance 255 to (255,255,255).
C14_ParamsAtSixty ==
  (Transformed /\ HexToRgb(canvas.hex) = Black /\ canvas.boldness = 60)
    => (Params = <<120, 249, 280>> /\ EndsMapped)

\* C14 as amended: the white point is 251.
C14_ParamsAtSixtyWhite251 ==
  (Transformed /\ HexToRgb(canvas.hex) = Black /\ canvas.boldness = 60)
    => (Params = <<120, 251, 280>> /\ EndsMapped)

C14_Witness ==
  /\ Transformed
  /\ canvas.boldness = 60
  /\ canvas.hex = "#000000"
  /\ \E i \in 1..Len(canvas.img) :
       /\ Opaque(canvas.img[i]) /\ Rgb(canvas.img[i]) = White
       /\ canvas.data[i] = canvas.img[i]
  /\ canvas.whitePoint = 251

\* C15: the image a call resolves with has, pixel by pixel, the alpha of the
\* input, and every pixel of alpha 0 is the input pixel.
C15_TransparentUntouched ==
  Transformed =>
    /\ Len(canvas.data) = Len(canvas.img)
    /\ \A i \in 1..Len(canvas.img) :
         /\ canvas.data[i].a = canvas.img[i].a
         /\ canvas.img[i].a = 0 => canvas.data[i] = canvas.img[i]

\* A transparent pixel whose colour is neither the target nor white, passed
\* through at the hardest boldness.
C15_Witness ==
  /\ Transformed
  /\ canvas.boldness = 100
  /\ canvas.hex = "#10B981"
  /\ \E i \in 1..Len(canvas.img) :
       /\ canvas.img[i] = [r |-> 10, g |-> 20, b |-> 30, a |-> 0]
       /\ canvas.data[i] = canvas.img[i]

\* C19: whatever whole boldness of 0..100 a call is made with, its black
\* point lies in 0..200 and its white point in 245..255, so the divisor
\* whitePoint - blackPoint of the normalisation is positive; and the
\* session's boldness, moved by the slider and by reset, stays in 0..100.
C19_PointsInRange ==
  /\ Transformed =>
       /\ canvas.blackPoint \in 0..200
       /\ canvas.whitePoint \in 245..255
       /\ canvas.whitePoint - canvas.blackPoint > 0
  /\ boldness \in 0..100

\* The call with the narrowest span between the two points.
C19_Witness ==
  /\ Transformed
  /\ canvas.boldness = 100
  /\ Params = <<200, 255, 400>>
  /\ boldness \in 0..100

\* C16: every page-cache entry under key p was produced from a rendering of
\* page p.
C16_EntryIsOfItsPage ==
  \A j \in 1..Len(colorizedPages) :
    colorizedPages[j].data.imageUrl.src.page = colorizedPages[j].page

\* C17: while no document is chosen (no colorize operation can be started
\* since the reset that cleared the cache) the page cache is empty.
C17_ClearedCacheStaysEmpty == file = 0 => colorizedPages = <<>>

\* The entries of the cache under keys other than k are kept by the step.
OthersKept(k) ==
  \A j \in 1..Len(colorizedPages) :
    colorizedPages[j].page # k =>
      \E i \in 1..Len(colorizedPages') : colorizedPages'[i] = colorizedPages[j]

\* C18: a colorize operation starts only when none is in progress, the
\* processing flag is true while one is, a batch run and a single-page
\* colorize are never in progress together, and a write of an operation
\* keeps every entry the cache holds under another key.
C18_OneColorizeAtATime ==
  [][/\ (ColorizeCurrentStart \/ BatchStart)
          => (single = None /\ batch.pc = "idle" /\ ~isProcessing)
     /\ (single' # None \/ batch'.pc # "idle") => isProcessing'
     /\ ~(single' # None /\ batch'.pc # "idle")
     /\ SingleOk => OthersKept(single[1].page)
     /\ BatchTransformOk => OthersKept(batch.i)]_vars

\* A batch run in progress that started from a cache a single-page colorize
\* had written, with the page preview there to be colorized.
C18_Witness ==
  /\ run.active
  /\ isProcessing
  /\ single = None
  /\ originalPageImage # None
  /\ Len(batch.map) >= 1
  /\ run.written = {}
  /\ colorizedPages = batch.map

====
